---------------------------- MODULE Spec2Model ----------------------------
(***************************************************************************)
(* A model of app/core/harmony.py: chord-transition counting, the          *)
(* self-referential and the corpus-relative chord entropy, and the         *)
(* construction of the global transition matrix.                           *)
(*                                                                         *)
(* A call of one of the three functions runs from "idle" to "done", one    *)
(* action per loop iteration or straight-line block of the source.         *)
(*                                                                         *)
(* Floats are modelled as exact fractions [n, d, e] standing for           *)
(* (n / d) * 10^e, kept in lowest terms with d > 0; d = 0 stands for the   *)
(* non-finite values numpy produces (n > 0: inf, n < 0: -inf, n = 0: nan). *)
(* np.log2 is tabulated in thousandths of a bit.                           *)
(***************************************************************************)
EXTENDS Integers, Sequences, FiniteSets, TLC

\* ------------------------------------------------------------- bounds

\* Longest chord sequence of a file scored by the two entropy functions.
MaxLen == 4
\* Most files in a corpus handed to build_global_transition_matrix.
MaxFiles == 2
\* Longest chord sequence of a corpus file.
MaxFileLen == 3

\* ------------------------------------------------------------- floats

Abs(x) == IF x < 0 THEN 0 - x ELSE x

Sign(x) == IF x < 0 THEN 0 - 1 ELSE IF x > 0 THEN 1 ELSE 0

RECURSIVE Gcd(_, _)
Gcd(a, b) == IF b = 0 THEN a ELSE Gcd(b, a % b)

\* The float n / d; a zero d gives inf, -inf or nan as numpy does.
Rat(n, d) ==
    IF d = 0 THEN [n |-> Sign(n), d |-> 0, e |-> 0]
    ELSE LET g == Gcd(Abs(n), Abs(d))
             s == Sign(d)
         IN  [n |-> (s * n) \div g, d |-> (s * d) \div g, e |-> 0]

Zero == Rat(0, 1)

One == Rat(1, 1)

NaN == Rat(0, 0)

IsFinite(x) == x.d # 0

RNeg(x) == [n |-> 0 - x.n, d |-> x.d, e |-> x.e]

RAdd(x, y) ==
    IF IsFinite(x) /\ IsFinite(y)
    THEN LET l == (x.d * y.d) \div Gcd(x.d, y.d)
         IN  Rat(x.n * (l \div x.d) + y.n * (l \div y.d), l)
    ELSE IF IsFinite(y) THEN x
    ELSE IF IsFinite(x) THEN y
    ELSE IF x.n = y.n THEN x ELSE NaN

RSub(x, y) == RAdd(x, RNeg(y))

RMul(x, y) ==
    IF IsFinite(x) /\ IsFinite(y) THEN Rat(x.n * y.n, x.d * y.d)
    ELSE Rat(Sign(x.n) * Sign(y.n), 0)

\* x / y on numpy floats: a zero divisor gives inf or nan, not an exception.
RDiv(x, y) ==
    IF IsFinite(x) /\ IsFinite(y) THEN Rat(x.n * y.d, x.d * y.n)
    ELSE IF IsFinite(y) THEN x
    ELSE IF IsFinite(x) THEN Zero
    ELSE NaN

\* x > y; every comparison with nan is false.
RGt(x, y) ==
    IF IsFinite(x) /\ IsFinite(y) THEN x.n * y.d > y.n * x.d
    ELSE IF IsFinite(y) THEN x.n > 0
    ELSE IF IsFinite(x) THEN y.n < 0
    ELSE x.n > 0 /\ y.n < 0

RLe(x, y) ==
    IF IsFinite(x) /\ IsFinite(y) THEN x.n * y.d <= y.n * x.d
    ELSE IF IsFinite(y) THEN x.n < 0
    ELSE IF IsFinite(x) THEN y.n > 0
    ELSE x.n # 0 /\ y.n # 0 /\ x.n <= y.n

\* log2 of the integers 1..16 in thousandths of a bit.
Log2Milli ==
    << 0, 1000, 1585, 2000, 2322, 2585, 2807, 3000,
       3170, 3322, 3459, 3585, 3700, 3807, 3907, 4000 >>

\* np.log2: -inf at 0 and nan below it; log2(10) = 3.3219 per decimal
\* exponent.
Log2(x) ==
    IF ~IsFinite(x) THEN (IF x.n > 0 THEN x ELSE NaN)
    ELSE IF x.n < 0 THEN NaN
    ELSE IF x.n = 0 THEN Rat(0 - 1, 0)
    ELSE Rat(Log2Milli[x.n] - Log2Milli[x.d] + (x.e * 33219) \div 10, 1000)

\* ------------------------------------------------------- dictionaries

\* A Python dict: the sequence of its <<key, value>> items in insertion
\* order.
EmptyDict == << >>

DictKeys(d) == { d[j][1] : j \in 1..Len(d) }

DictHas(d, k) == k \in DictKeys(d)

DictIndex(d, k) == CHOOSE j \in 1..Len(d) : d[j][1] = k

DictGet(d, k) == d[DictIndex(d, k)][2]

\* defaultdict(int): d[k] += 1, inserting k at 0 first when it is missing.
DictInc(d, k) ==
    IF DictHas(d, k)
    THEN [d EXCEPT ![DictIndex(d, k)] = << k, @[2] + 1 >>]
    ELSE Append(d, << k, 1 >>)

\* sum(d.values()) of integer values.
RECURSIVE DictSum(_)
DictSum(d) == IF d = << >> THEN 0 ELSE d[1][2] + DictSum(Tail(d))

\* ------------------------------------------------------------ strings

Quote(s) == "'" \o s \o "'"

RECURSIVE JoinQuoted(_)
JoinQuoted(l) ==
    IF l = << >> THEN ""
    ELSE IF Len(l) = 1 THEN Quote(l[1])
    ELSE Quote(l[1]) \o ", " \o JoinQuoted(Tail(l))

\* str() of a list of pitch names: "['C', 'E', 'G']".
StrList(l) == "[" \o JoinQuoted(l) \o "]"

\* str() of a tuple of two lists.
StrPair(a, b) == "(" \o StrList(a) \o ", " \o StrList(b) \o ")"

\* A key with the two chords in the wrong order.
TransitionKeySwapped(seq, i) == StrPair(seq[i + 2], seq[i + 1])

\* The key of the transition chord_sequence[i] -> chord_sequence[i + 1]
\* (i counts from 0 as in the source).
TransitionKey(seq, i) == StrPair(seq[i + 1], seq[i + 2])

\* range(len(chord_sequence) - 1) still has the index i.
InRange(seq, i) == i < Len(seq) - 1

\* ------------------------------------------------------------- inputs

\* chord.pitchNames of the chords the parser may report: a list of pitch
\* names in the order of the chord's notes.
Chords == { << "C", "E", "G" >>, << "E", "C", "G" >>, << "D", "F", "A" >> }

CorpusChords == { << "C", "E", "G" >>, << "D", "F", "A" >> }

SeqsUpTo(S, n) == UNION { [1..k -> S] : k \in 0..n }

\* What music21 makes of a file: a chord sequence, or an exception.
Parsed(seq) == [ok |-> TRUE, chords |-> seq]

ParseError == [ok |-> FALSE, chords |-> << >>]

Files == { Parsed(s) : s \in SeqsUpTo(Chords, MaxLen) } \cup { ParseError }

CorpusFiles ==
    { Parsed(s) : s \in SeqsUpTo(CorpusChords, MaxFileLen) } \cup { ParseError }

Keys == { StrPair(a, b) : a \in Chords, b \in Chords }

Probabilities == { Zero, Rat(1, 2), One }

\* The global matrices handed to the corpus-relative entropy: the empty
\* one, those of one entry, and those that give a transition and its
\* reverse the probability 1/2 each.
GlobalMatrices ==
    { EmptyDict }
      \cup { << << k, p >> >> : k \in Keys, p \in Probabilities }
      \cup { << << StrPair(c[1], c[2]), Rat(1, 2) >>,
                 << StrPair(c[2], c[1]), Rat(1, 2) >> >> :
                c \in { q \in Chords \X Chords : q[1] # q[2] } }

\* -------------------------------------------------------------- state

VARIABLES
    fn,                        \* the function running: "none" when idle
    pc,                        \* its position
    midi_file,                 \* the file argument, as the parser sees it
    midi_files,                \* build's argument
    normalized,
    global_transition_matrix,  \* the argument of the relative entropy, or
                               \* the dict build fills
    chord_sequence,
    i,                         \* index of the counting loop
    transitions,
    total,
    total_transitions,
    entropy,
    item,                      \* items of transitions iterated so far
    file_idx,                  \* files of midi_files iterated so far
    global_transitions,
    result,                    \* the value returned
    raised,                    \* an exception left the function
    log_args,                  \* every argument np.log2 was applied to
    divisors,                  \* every divisor of a division
    missing_lookups            \* subscriptions d[k] of the matrix, k absent

vars == << fn, pc, midi_file, midi_files, normalized, global_transition_matrix,
           chord_sequence, i, transitions, total, total_transitions, entropy,
           item, file_idx, global_transitions, result, raised, log_args,
           divisors, missing_lookups >>

NoResult == [kind |-> "none"]

FloatResult(x) == [kind |-> "float", value |-> x]

DictResult(d) == [kind |-> "dict", value |-> d]

Init ==
    /\ fn = "none"
    /\ pc = "idle"
    /\ midi_file = ParseError
    /\ midi_files = << >>
    /\ normalized = FALSE
    /\ global_transition_matrix = EmptyDict
    /\ chord_sequence = << >>
    /\ i = 0
    /\ transitions = EmptyDict
    /\ total = 0
    /\ total_transitions = 0
    /\ entropy = Zero
    /\ item = 0
    /\ file_idx = 0
    /\ global_transitions = EmptyDict
    /\ result = NoResult
    /\ raised = FALSE
    /\ log_args = {}
    /\ divisors = {}
    /\ missing_lookups = 0

\* ------------------------------------------- calculate_chord_entropy

\* Lines 25-38: parse the file (an exception propagates), extract the
\* chord sequence, start counting.
CallSelf(f) ==
    /\ pc = "idle"
    /\ fn' = "self"
    /\ midi_file' = f
    /\ IF f.ok
       THEN /\ chord_sequence' = f.chords
            /\ pc' = "self_count"
            /\ raised' = FALSE
       ELSE /\ chord_sequence' = << >>
            /\ pc' = "done"
            /\ raised' = TRUE
    /\ transitions' = EmptyDict
    /\ i' = 0
    /\ UNCHANGED << midi_files, normalized, global_transition_matrix, total,
                    total_transitions, entropy, item, file_idx,
                    global_transitions, result, log_args, divisors,
                    missing_lookups >>

\* Lines 39-41: one iteration of the counting loop.
SelfCount ==
    /\ pc = "self_count"
    /\ InRange(chord_sequence, i)
    /\ transitions' = DictInc(transitions, TransitionKey(chord_sequence, i))
    /\ i' = i + 1
    /\ UNCHANGED << fn, pc, midi_file, midi_files, normalized,
                    global_transition_matrix, chord_sequence, total,
                    total_transitions, entropy, item, file_idx,
                    global_transitions, result, raised, log_args, divisors,
                    missing_lookups >>

\* The 0 / 0 of an entropy over no transitions.
NoTransitionsEntropyNaN == NaN

\* The value returned when there is nothing to measure.
NoTransitionsEntropy == Zero

\* Lines 54-58: the loop is over; total the counts, return 0.0 on none.
SelfTotal ==
    /\ pc = "self_count"
    /\ ~InRange(chord_sequence, i)
    /\ total' = DictSum(transitions)
    /\ IF DictSum(transitions) = 0
       THEN /\ result' = FloatResult(NoTransitionsEntropy)
            /\ pc' = "done"
       ELSE /\ result' = result
            /\ pc' = "self_entropy"
    /\ UNCHANGED << fn, midi_file, midi_files, normalized,
                    global_transition_matrix, chord_sequence, i, transitions,
                    total_transitions, entropy, item, file_idx,
                    global_transitions, raised, log_args, divisors,
                    missing_lookups >>

\* The sum of the logarithms, each without its weight count / total.
RECURSIVE SumLogP(_, _)
SumLogP(d, t) ==
    IF d = << >> THEN Zero
    ELSE RAdd(Log2(Rat(d[1][2], t)), SumLogP(Tail(d), t))

\* sum((count / total) * np.log2(count / total) for count in d.values())
RECURSIVE SumPLogP(_, _)
SumPLogP(d, t) ==
    IF d = << >> THEN Zero
    ELSE RAdd(RMul(Rat(d[1][2], t), Log2(Rat(d[1][2], t))),
              SumPLogP(Tail(d), t))

\* Lines 59-63: the Shannon entropy of the transition distribution.
SelfEntropy ==
    /\ pc = "self_entropy"
    /\ entropy' = RNeg(SumPLogP(transitions, total))
    /\ result' = FloatResult(RNeg(SumPLogP(transitions, total)))
    /\ log_args' = log_args \cup
                     { Rat(transitions[j][2], total) : j \in 1..Len(transitions) }
    /\ divisors' = divisors \cup { Rat(total, 1) }
    /\ pc' = "done"
    /\ UNCHANGED << fn, midi_file, midi_files, normalized,
                    global_transition_matrix, chord_sequence, i, transitions,
                    total, total_transitions, item, file_idx,
                    global_transitions, raised, missing_lookups >>

\* ------------- calculate_chord_entropy_from_global_transition_matrix

\* The probability assumed for a transition the matrix does not hold: 1e-10.
UnseenProbability == [n |-> 1, d |-> 1, e |-> 0 - 10]

\* Line 104: the sequence is too short to hold a transition.
TooShort(seq) == Len(seq) < 2

\* Line 124: transition_key in global_transition_matrix.
KeyInMatrix(m, k) == DictHas(m, k)

\* No guard against a probability of 0.
AnyProbability(g) == TRUE

\* Line 127: global_probability > 0.
PositiveProbability(g) == RGt(g, Zero)

\* Lines 93-102: parse the file (an exception propagates) and extract the
\* chord sequence.
CallRel(f, m, norm) ==
    /\ pc = "idle"
    /\ fn' = "rel"
    /\ midi_file' = f
    /\ global_transition_matrix' = m
    /\ normalized' = norm
    /\ IF f.ok
       THEN /\ chord_sequence' = f.chords
            /\ pc' = "rel_length"
            /\ raised' = FALSE
       ELSE /\ chord_sequence' = << >>
            /\ pc' = "done"
            /\ raised' = TRUE
    /\ UNCHANGED << midi_files, i, transitions, total, total_transitions,
                    entropy, item, file_idx, global_transitions, result,
                    log_args, divisors, missing_lookups >>

\* Lines 104-109: return 0.0 for a sequence of fewer than two chords.
RelLength ==
    /\ pc = "rel_length"
    /\ IF TooShort(chord_sequence)
       THEN /\ result' = FloatResult(NoTransitionsEntropy)
            /\ pc' = "done"
       ELSE /\ result' = result
            /\ pc' = "rel_count"
    /\ transitions' = EmptyDict
    /\ i' = 0
    /\ UNCHANGED << fn, midi_file, midi_files, normalized,
                    global_transition_matrix, chord_sequence, total,
                    total_transitions, entropy, item, file_idx,
                    global_transitions, raised, log_args, divisors,
                    missing_lookups >>

\* Lines 110-112: one iteration of the counting loop.
RelCount ==
    /\ pc = "rel_count"
    /\ InRange(chord_sequence, i)
    /\ transitions' = DictInc(transitions, TransitionKey(chord_sequence, i))
    /\ i' = i + 1
    /\ UNCHANGED << fn, pc, midi_file, midi_files, normalized,
                    global_transition_matrix, chord_sequence, total,
                    total_transitions, entropy, item, file_idx,
                    global_transitions, result, raised, log_args, divisors,
                    missing_lookups >>

\* Lines 117-121: the loop is over; total the counts, return 0.0 on none.
RelTotal ==
    /\ pc = "rel_count"
    /\ ~InRange(chord_sequence, i)
    /\ total_transitions' = DictSum(transitions)
    /\ entropy' = Zero
    /\ item' = 0
    /\ IF DictSum(transitions) = 0
       THEN /\ result' = FloatResult(NoTransitionsEntropy)
            /\ pc' = "done"
       ELSE /\ result' = result
            /\ pc' = "rel_items"
    /\ UNCHANGED << fn, midi_file, midi_files, normalized,
                    global_transition_matrix, chord_sequence, i, transitions,
                    total, file_idx, global_transitions, raised, log_args,
                    divisors, missing_lookups >>

\* Lines 129-130 and 134-137: entropy -= (count / total) * np.log2(p).
Accumulate(p, count) ==
    /\ entropy' = RSub(entropy, RMul(Rat(count, total_transitions), Log2(p)))
    /\ log_args' = log_args \cup { p }
    /\ divisors' = divisors \cup { Rat(total_transitions, 1) }

\* Lines 123-137: one item of transitions scored against the matrix.
RelItem ==
    /\ pc = "rel_items"
    /\ item < Len(transitions)
    /\ item' = item + 1
    /\ LET transition_key == transitions[item + 1][1]
           count == transitions[item + 1][2]
       IN  IF KeyInMatrix(global_transition_matrix, transition_key)
           THEN IF ~DictHas(global_transition_matrix, transition_key)
                THEN \* the subscription raises KeyError
                     /\ missing_lookups' = missing_lookups + 1
                     /\ raised' = TRUE
                     /\ pc' = "done"
                     /\ UNCHANGED << entropy, log_args, divisors >>
                ELSE /\ IF PositiveProbability(
                              DictGet(global_transition_matrix, transition_key))
                        THEN Accumulate(
                               DictGet(global_transition_matrix, transition_key),
                               count)
                        ELSE UNCHANGED << entropy, log_args, divisors >>
                     /\ UNCHANGED << missing_lookups, raised, pc >>
           ELSE /\ Accumulate(UnseenProbability, count)
                /\ UNCHANGED << missing_lookups, raised, pc >>
    /\ UNCHANGED << fn, midi_file, midi_files, normalized,
                    global_transition_matrix, chord_sequence, i, transitions,
                    total, total_transitions, file_idx, global_transitions,
                    result >>

\* Lines 142-145: log2 of the number of distinct transitions of the file.
MaxEntropy(d) ==
    IF Cardinality(DictKeys(d)) > 0
    THEN Log2(Rat(Cardinality(DictKeys(d)), 1))
    ELSE Zero

\* Line 148: entropy / max_entropy if max_entropy > 0 else 0.
Normalize(h, max_entropy) ==
    IF RGt(max_entropy, Zero) THEN RDiv(h, max_entropy) ELSE Zero

\* Lines 139-153: the items are over; return the entropy, normalized when
\* asked.
RelReturn ==
    /\ pc = "rel_items"
    /\ item = Len(transitions)
    /\ IF normalized
       THEN /\ result' = FloatResult(Normalize(entropy, MaxEntropy(transitions)))
            /\ log_args' = log_args \cup
                 (IF Cardinality(DictKeys(transitions)) > 0
                  THEN { Rat(Cardinality(DictKeys(transitions)), 1) } ELSE {})
            /\ divisors' = divisors \cup
                 (IF RGt(MaxEntropy(transitions), Zero)
                  THEN { MaxEntropy(transitions) } ELSE {})
       ELSE /\ result' = FloatResult(entropy)
            /\ UNCHANGED << log_args, divisors >>
    /\ pc' = "done"
    /\ UNCHANGED << fn, midi_file, midi_files, normalized,
                    global_transition_matrix, chord_sequence, i, transitions,
                    total, total_transitions, entropy, item, file_idx,
                    global_transitions, raised, missing_lookups >>

\* ------------------------------------ build_global_transition_matrix

\* Lines 171-174: the empty running counts.
CallBuild(files) ==
    /\ pc = "idle"
    /\ fn' = "build"
    /\ midi_files' = files
    /\ global_transitions' = EmptyDict
    /\ total_transitions' = 0
    /\ file_idx' = 0
    /\ pc' = "build_files"
    /\ UNCHANGED << midi_file, normalized, global_transition_matrix,
                    chord_sequence, i, transitions, total, entropy, item,
                    result, raised, log_args, divisors, missing_lookups >>

\* Lines 176-184: the next file parses; extract its chord sequence.
BuildParse ==
    /\ pc = "build_files"
    /\ file_idx < Len(midi_files)
    /\ midi_files[file_idx + 1].ok
    /\ chord_sequence' = midi_files[file_idx + 1].chords
    /\ i' = 0
    /\ file_idx' = file_idx + 1
    /\ pc' = "build_count"
    /\ UNCHANGED << fn, midi_file, midi_files, normalized,
                    global_transition_matrix, transitions, total,
                    total_transitions, entropy, item, global_transitions,
                    result, raised, log_args, divisors, missing_lookups >>

\* The handler leaves the loop instead of continuing it.
BuildSkipBreak ==
    /\ pc = "build_files"
    /\ file_idx < Len(midi_files)
    /\ ~midi_files[file_idx + 1].ok
    /\ file_idx' = Len(midi_files)
    /\ UNCHANGED << fn, pc, midi_file, midi_files, normalized,
                    global_transition_matrix, chord_sequence, i, transitions,
                    total, total_transitions, entropy, item,
                    global_transitions, result, raised, log_args, divisors,
                    missing_lookups >>

\* No handler: the exception of the parser leaves the function.
BuildSkipRaises ==
    /\ pc = "build_files"
    /\ file_idx < Len(midi_files)
    /\ ~midi_files[file_idx + 1].ok
    /\ raised' = TRUE
    /\ pc' = "done"
    /\ UNCHANGED << fn, midi_file, midi_files, normalized,
                    global_transition_matrix, chord_sequence, i, transitions,
                    total, total_transitions, entropy, item, file_idx,
                    global_transitions, result, log_args, divisors,
                    missing_lookups >>

\* Lines 176-178 and 192-194: the next file does not parse; the exception
\* is caught and the loop continues with the file after it.
BuildSkip ==
    /\ pc = "build_files"
    /\ file_idx < Len(midi_files)
    /\ ~midi_files[file_idx + 1].ok
    /\ file_idx' = file_idx + 1
    /\ UNCHANGED << fn, pc, midi_file, midi_files, normalized,
                    global_transition_matrix, chord_sequence, i, transitions,
                    total, total_transitions, entropy, item,
                    global_transitions, result, raised, log_args, divisors,
                    missing_lookups >>

\* The total counted once a file instead of once a transition.
BuildCountTotalPerFile ==
    /\ pc = "build_count"
    /\ InRange(chord_sequence, i)
    /\ global_transitions' =
           DictInc(global_transitions, TransitionKey(chord_sequence, i))
    /\ total_transitions' = IF i = 0 THEN total_transitions + 1
                                     ELSE total_transitions
    /\ i' = i + 1
    /\ UNCHANGED << fn, pc, midi_file, midi_files, normalized,
                    global_transition_matrix, chord_sequence, transitions,
                    total, entropy, item, file_idx, result, raised, log_args,
                    divisors, missing_lookups >>

\* Lines 187-190: one transition of the file added to the running counts.
BuildCount ==
    /\ pc = "build_count"
    /\ InRange(chord_sequence, i)
    /\ global_transitions' =
           DictInc(global_transitions, TransitionKey(chord_sequence, i))
    /\ total_transitions' = total_transitions + 1
    /\ i' = i + 1
    /\ UNCHANGED << fn, pc, midi_file, midi_files, normalized,
                    global_transition_matrix, chord_sequence, transitions,
                    total, entropy, item, file_idx, result, raised, log_args,
                    divisors, missing_lookups >>

\* Lines 187 and 176: the file's transitions are over; on to the next file.
BuildNextFile ==
    /\ pc = "build_count"
    /\ ~InRange(chord_sequence, i)
    /\ pc' = "build_files"
    /\ UNCHANGED << fn, midi_file, midi_files, normalized,
                    global_transition_matrix, chord_sequence, i, transitions,
                    total, total_transitions, entropy, item, file_idx,
                    global_transitions, result, raised, log_args, divisors,
                    missing_lookups >>

\* Lines 201-202: each count divided by the grand total.
ToProbabilities(counts, grand_total) ==
    [j \in 1..Len(counts) |->
        << counts[j][1], Rat(counts[j][2], grand_total) >>]

\* Lines 196-210: the files are over; return the probabilities, or the
\* empty matrix when nothing was counted.
BuildConvert ==
    /\ pc = "build_files"
    /\ file_idx = Len(midi_files)
    /\ IF total_transitions = 0
       THEN /\ global_transition_matrix' = EmptyDict
            /\ result' = DictResult(EmptyDict)
            /\ UNCHANGED divisors
       ELSE /\ global_transition_matrix' =
                   ToProbabilities(global_transitions, total_transitions)
            /\ result' =
                   DictResult(ToProbabilities(global_transitions, total_transitions))
            /\ divisors' = divisors \cup
                   (IF global_transitions = EmptyDict THEN {}
                    ELSE { Rat(total_transitions, 1) })
    /\ pc' = "done"
    /\ UNCHANGED << fn, midi_file, midi_files, normalized, chord_sequence, i,
                    transitions, total, total_transitions, entropy, item,
                    file_idx, global_transitions, raised, log_args,
                    missing_lookups >>

Next ==
    \/ pc = "idle" /\ \E f \in Files : CallSelf(f)
    \/ SelfCount
    \/ SelfTotal
    \/ SelfEntropy
    \/ pc = "idle" /\ \E f \in Files, m \in GlobalMatrices, norm \in BOOLEAN :
                          CallRel(f, m, norm)
    \/ RelLength
    \/ RelCount
    \/ RelTotal
    \/ RelItem
    \/ RelReturn
    \/ pc = "idle" /\ \E files \in SeqsUpTo(CorpusFiles, MaxFiles) : CallBuild(files)
    \/ BuildParse
    \/ BuildSkip
    \/ BuildCount
    \/ BuildNextFile
    \/ BuildConvert

Spec == Init /\ [][Next]_vars

\* ------------------------------------------------- what is claimed

Max(a, b) == IF a > b THEN a ELSE b

\* The count a dict holds for a key: 0 for a key it does not hold.
CountOf(d, k) == IF DictHas(d, k) THEN DictGet(d, k) ELSE 0

\* No key occurs twice among the items of a dict.
KeysDistinct(d) == Cardinality(DictKeys(d)) = Len(d)

\* How many of the first n consecutive pairs of seq are exactly (a, b).
Occurrences(seq, n, a, b) ==
    Cardinality({ j \in 1..n : seq[j] = a /\ seq[j + 1] = b })

\* The transitions of a whole sequence.
NumPairs(seq) == Max(Len(seq) - 1, 0)

\* C1: once the counting loop of either entropy function has made i
\* iterations, the counts sum to i and every ordered pair (a, b) has as
\* count the number of the first i consecutive pairs equal to (a, b), a
\* pair (a, a) included and (a, b) apart from (b, a); after the loop i is
\* max(n - 1, 0), so a sequence of 0 or 1 chords leaves the mapping empty.
C1_TransitionCounting ==
    (fn \in { "self", "rel" } /\ pc # "rel_length") =>
        /\ DictSum(transitions) = i
        /\ KeysDistinct(transitions)
        /\ DictKeys(transitions) \subseteq Keys
        /\ \A a \in Chords, b \in Chords :
               CountOf(transitions, StrPair(a, b))
                   = Occurrences(chord_sequence, i, a, b)
        /\ (pc \notin { "self_count", "rel_count" }
               => i = NumPairs(chord_sequence))
        /\ (pc = "done" /\ Len(chord_sequence) < 2 => transitions = EmptyDict)

C1_Witness ==
    /\ fn = "rel"
    /\ pc = "done"
    /\ DictSum(transitions) = 3
    /\ \E a \in Chords, b \in Chords :
           /\ a # b
           /\ CountOf(transitions, StrPair(a, a)) = 1
           /\ CountOf(transitions, StrPair(a, b)) = 1
           /\ CountOf(transitions, StrPair(b, a)) = 1

\* The files of a list that parse.
Kept(files) == SelectSeq(files, LAMBDA f : f.ok)

\* How many transitions (a, b) the files of a list hold together.
RECURSIVE CorpusOccurrences(_, _, _)
CorpusOccurrences(files, a, b) ==
    IF files = << >> THEN 0
    ELSE Occurrences(Head(files).chords, NumPairs(Head(files).chords), a, b)
           + CorpusOccurrences(Tail(files), a, b)

\* How many transitions the files of a list hold together.
RECURSIVE GrandTotal(_)
GrandTotal(files) ==
    IF files = << >> THEN 0
    ELSE NumPairs(Head(files).chords) + GrandTotal(Tail(files))

\* The sum of the float values of a dict.
RECURSIVE ValueSum(_)
ValueSum(d) == IF d = << >> THEN Zero ELSE RAdd(d[1][2], ValueSum(Tail(d)))

CorpusKeys == { StrPair(a, b) : a \in CorpusChords, b \in CorpusChords }

\* C2: all through build_global_transition_matrix total_transitions is the
\* sum of the running counts; when at least one transition was counted the
\* returned probabilities sum to 1, and each is its key's count, summed
\* over all the files, divided by the number of transitions of all the
\* files.
C2_ProbabilitiesSumToOne ==
    fn = "build" =>
        /\ total_transitions = DictSum(global_transitions)
        /\ (pc = "done" /\ total_transitions > 0 =>
              /\ result.kind = "dict"
              /\ ValueSum(result.value) = One
              /\ KeysDistinct(result.value)
              /\ DictKeys(result.value) = DictKeys(global_transitions)
              /\ DictKeys(result.value) \subseteq CorpusKeys
              /\ \A a \in CorpusChords, b \in CorpusChords :
                    LET k == StrPair(a, b)
                    IN  IF CorpusOccurrences(midi_files, a, b) = 0
                        THEN ~DictHas(result.value, k)
                        ELSE /\ DictHas(result.value, k)
                             /\ DictGet(result.value, k)
                                  = Rat(CorpusOccurrences(midi_files, a, b),
                                        GrandTotal(midi_files)))

C2_Witness ==
    /\ fn = "build"
    /\ pc = "done"
    /\ Len(midi_files) = 2
    /\ NumPairs(midi_files[1].chords) = 2
    /\ NumPairs(midi_files[2].chords) = 2
    /\ Len(result.value) = 2
    /\ \E k \in CorpusKeys :
          /\ DictHas(result.value, k)
          /\ DictGet(result.value, k) = Rat(3, 4)

\* C3: a file that fails to parse raises nothing out of
\* build_global_transition_matrix and adds nothing to the running counts:
\* between two files the counts are those of the files so far that parsed,
\* every file of the list is gone through, and the matrix returned is that
\* of the list without its failing files.
C3_SkipAndContinue ==
    fn = "build" =>
        /\ ~raised
        /\ (pc = "build_files" =>
              LET done_files == Kept(SubSeq(midi_files, 1, file_idx))
              IN  /\ total_transitions = GrandTotal(done_files)
                  /\ \A a \in CorpusChords, b \in CorpusChords :
                        CountOf(global_transitions, StrPair(a, b))
                            = CorpusOccurrences(done_files, a, b))
        /\ (pc = "done" =>
              /\ file_idx = Len(midi_files)
              /\ result.kind = "dict"
              /\ Len(result.value)
                    = Cardinality({ c \in CorpusChords \X CorpusChords :
                         CorpusOccurrences(Kept(midi_files), c[1], c[2]) > 0 })
              /\ \A j \in 1..Len(result.value) :
                    \E a \in CorpusChords, b \in CorpusChords :
                        /\ result.value[j][1] = StrPair(a, b)
                        /\ result.value[j][2]
                             = Rat(CorpusOccurrences(Kept(midi_files), a, b),
                                   GrandTotal(Kept(midi_files))))

C3_Witness ==
    /\ fn = "build"
    /\ pc = "done"
    /\ Len(midi_files) = 2
    /\ ~midi_files[1].ok
    /\ midi_files[2].ok
    /\ Len(result.value) = 2

\* C4: build_global_transition_matrix returns the empty mapping, raising
\* nothing and dividing nothing, when no file of the list yields a
\* transition: every file fails or holds fewer than two chords, or the list
\* is empty.
C4_EmptyMatrixOnNoTransitions ==
    (fn = "build" /\ pc = "done" /\ GrandTotal(Kept(midi_files)) = 0) =>
        /\ result = DictResult(EmptyDict)
        /\ ~raised
        /\ divisors = {}

C4_Witness ==
    /\ fn = "build"
    /\ pc = "done"
    /\ Len(midi_files) = 2
    /\ ~midi_files[1].ok
    /\ midi_files[2].ok
    /\ Len(midi_files[2].chords) = 1
    /\ result = DictResult(EmptyDict)

C4_WitnessAllFail ==
    /\ fn = "build"
    /\ pc = "done"
    /\ Len(midi_files) = 2
    /\ ~midi_files[1].ok
    /\ ~midi_files[2].ok
    /\ result = DictResult(EmptyDict)

\* The probability the scoring of a transition is to take the logarithm
\* of: the matrix's, or the unseen probability for a key the matrix does
\* not hold or holds at 0.
ScoredProbability(m, k) ==
    IF DictHas(m, k) /\ DictGet(m, k) # Zero THEN DictGet(m, k)
    ELSE UnseenProbability

\* The entropy the first n items of a file's transitions are to add up to.
RECURSIVE ScoredEntropy(_, _, _, _)
ScoredEntropy(d, n, t, m) ==
    IF n = 0 THEN Zero
    ELSE RAdd(ScoredEntropy(d, n - 1, t, m),
              RMul(Rat(d[n][2], t), RNeg(Log2(ScoredProbability(m, d[n][1])))))

\* C5: in the corpus-relative entropy every transition of the file whose
\* key the global matrix does not hold, or holds with probability 0, adds
\* its local probability times -log2(1e-10) to the entropy, as a
\* transition of probability g > 0 adds its local probability times
\* -log2(g).
C5_ZeroProbabilityScoredAsUnseen ==
    (fn = "rel" /\ pc \in { "rel_items", "done" } /\ ~raised) =>
        entropy = ScoredEntropy(transitions, item, total_transitions,
                                global_transition_matrix)

\* C6: the normalized corpus-relative entropy lies in [0, 1].
C6_NormalizedInUnitInterval ==
    (fn = "rel" /\ pc = "done" /\ normalized /\ ~raised) =>
        /\ result.kind = "float"
        /\ RLe(Zero, result.value)
        /\ RLe(result.value, One)

\* C7: for a file of fewer than two chords both entropy functions return
\* exactly 0.0, whatever the matrix and the normalized flag, and evaluate
\* neither a logarithm nor a division.
C7_ShortSequenceZero ==
    (fn \in { "self", "rel" } /\ pc = "done" /\ midi_file.ok
        /\ Len(midi_file.chords) < 2) =>
        /\ result = FloatResult(Zero)
        /\ log_args = {}
        /\ divisors = {}

C7_Witness ==
    /\ fn = "rel"
    /\ pc = "done"
    /\ normalized
    /\ midi_file.ok
    /\ Len(midi_file.chords) = 1
    /\ global_transition_matrix # EmptyDict
    /\ result = FloatResult(Zero)

C7_WitnessSelf ==
    /\ fn = "self"
    /\ pc = "done"
    /\ midi_file.ok
    /\ Len(midi_file.chords) = 1
    /\ result = FloatResult(Zero)

CEG == << "C", "E", "G" >>

DFA == << "D", "F", "A" >>

ScenarioRun ==
    /\ fn = "self"
    /\ pc = "done"
    /\ chord_sequence = << CEG, DFA, CEG, DFA >>

\* C8 as stated: for [CEG, DFA, CEG, DFA] the count mapping holds the one
\* transition (CEG, DFA), with count 2, and the self-referential entropy
\* is 0.0.
C8_ScenarioOneTransition ==
    ScenarioRun =>
        /\ transitions = << << StrPair(CEG, DFA), 2 >> >>
        /\ result = FloatResult(Zero)

\* C8 as amended: for [CEG, DFA, CEG, DFA] the count mapping holds two
\* transitions, (CEG, DFA) with count 2 and (DFA, CEG) with count 1, and
\* the self-referential entropy is log2(3) - 2/3, about 0.918.
C8_ScenarioTwoTransitions ==
    ScenarioRun =>
        /\ transitions = << << StrPair(CEG, DFA), 2 >>, << StrPair(DFA, CEG), 1 >> >>
        /\ result = FloatResult(RSub(Log2(Rat(3, 1)), Rat(2, 3)))
        /\ RGt(result.value, Rat(9, 10))
        /\ RGt(Rat(1, 1), result.value)

C8_Witness == ScenarioRun /\ result.kind = "float"

\* The pitch names of a chord as a set.
PitchSet(chord) == { chord[j] : j \in 1..Len(chord) }

\* C9: two consecutive pairs whose previous chords are equal as sets of
\* pitch names and whose next chords are equal as sets have the same
\* transition key and are counted together, whatever the order the pitch
\* names are listed in.
C9_KeysIgnorePitchOrder ==
    (fn \in { "self", "rel" } /\ pc = "done" /\ ~raised) =>
        \A j \in 1..NumPairs(chord_sequence) :
            /\ \A k \in 1..NumPairs(chord_sequence) :
                  (/\ PitchSet(chord_sequence[j]) = PitchSet(chord_sequence[k])
                   /\ PitchSet(chord_sequence[j + 1])
                        = PitchSet(chord_sequence[k + 1]))
                  => TransitionKey(chord_sequence, j - 1)
                        = TransitionKey(chord_sequence, k - 1)
            /\ CountOf(transitions, TransitionKey(chord_sequence, j - 1))
                  = Cardinality({ k \in 1..NumPairs(chord_sequence) :
                       /\ PitchSet(chord_sequence[j]) = PitchSet(chord_sequence[k])
                       /\ PitchSet(chord_sequence[j + 1])
                            = PitchSet(chord_sequence[k + 1]) })

\* C10: in the two entropy functions np.log2 is only ever applied to a
\* strictly positive argument, no divisor is zero, no key missing from the
\* global matrix is looked up, and the value returned is a finite float;
\* with normalized set and one distinct transition (max_entropy = 0) the
\* function returns 0 and does not divide by max_entropy.
C10_NoUndefinedArithmetic ==
    fn \in { "self", "rel" } =>
        /\ \A x \in log_args : IsFinite(x) /\ RGt(x, Zero)
        /\ \A x \in divisors : IsFinite(x) /\ x # Zero
        /\ missing_lookups = 0
        /\ (pc = "done" /\ midi_file.ok =>
              /\ ~raised
              /\ result.kind = "float"
              /\ IsFinite(result.value))
        /\ (pc = "done" /\ fn = "rel" /\ normalized /\ Len(transitions) = 1 =>
              /\ result = FloatResult(Zero)
              /\ divisors \subseteq { Rat(total_transitions, 1) })

C10_Witness ==
    /\ fn = "rel"
    /\ pc = "done"
    /\ normalized
    /\ Len(transitions) = 1
    /\ total_transitions = 3
    /\ DictHas(global_transition_matrix, transitions[1][1])
    /\ DictGet(global_transition_matrix, transitions[1][1]) = Zero

C10_WitnessUnseen ==
    /\ fn = "rel"
    /\ pc = "done"
    /\ ~normalized
    /\ global_transition_matrix = EmptyDict
    /\ UnseenProbability \in log_args
    /\ Len(transitions) = 3

=============================================================================
